---- MODULE Spec2Model ----
(***************************************************************************)
(* A model of tournament.py: Participant, Match, Tournament and its two    *)
(* formats, SwissTournament and SingleEliminationTournament.               *)
(*                                                                         *)
(* Participants are identified by their position 1..N in the list that is  *)
(* handed to the constructor (Participant.__eq__ compares ids, and the     *)
(* ids of one tournament are distinct).  Match objects are identified by   *)
(* the order of their creation (Match has no __eq__: identity).  The code  *)
(* is Python 2: filter() returns a list, and a class that defines __eq__   *)
(* stays hashable.                                                         *)
(*                                                                         *)
(* Participant.current_match and Participant.match_history are written by  *)
(* the code and read by none of it; they are left out.  Event handlers are *)
(* the observer's: they return and call nothing back.                      *)
(***************************************************************************)
EXTENDS Integers, Sequences, FiniteSets, TLC

\* ------------------------------------------------------------------ bounds

\* The largest number of participants of a single-elimination tournament.
MaxPlayers == 6

\* The largest number of participants of a Swiss tournament.
MaxSwissPlayers == 6

\* The largest number of matches a Swiss configuration may need in all
\* (rounds * N / 2): it bounds the configured number of rounds.
MaxSwissMatches == 7

\* The largest number of participants where the driver misuses the interface.
MaxMisusePlayers == 4

\* The largest number of matches of a Swiss configuration where it does.
MaxMisuseMatches == 4

\* The largest number of calls the interface forbids that a driver makes.
MaxMisuses == 2

\* The sizes and the Swiss match count of the runs checked for termination.
MaxFairPlayers == 5
MaxFairMatches == 6

\* The registrations, and the sizes and the Swiss match count, of the runs
\* with a registry filled by the driver.
MaxCallbacks == 3
MaxCallbackPlayers == 3
MaxCallbackMatches == 2

\* The sizes and the Swiss match count of the runs with a handler that
\* reports results.
MaxReentrantPlayers == 4
MaxReentrantMatches == 4

\* ------------------------------------------------------- values of a slot

\* Python's None: an empty slot, a winner not yet recorded.
NoneVal == -1

\* The global Participant("BY"), tournament.BY (BY is a reserved word here).
Bye == 0

\* Match.TIE.  It is the int 1 in the source, which no Participant equals
\* (Participant.__eq__ answers False for a non-Participant); here the
\* participants are the numbers 1..N, so the marker is a number that is
\* none of them.
TIE == MaxPlayers + MaxSwissPlayers + 1

\* The match argument of an event that carries no match.
NoMatch == 0

Formats == {"swiss", "single"}

\* ---------------------------------------------------------------- state

VARIABLES
    format,             \* which subclass of Tournament this is
    participants,       \* Tournament.participants: the list of participants
    num_players,        \* Tournament.num_players, 0 until start() sets it
    rounds,             \* SwissTournament.rounds / SingleElimination.rounds
    tournament_score,   \* Participant.tournament_score, per participant and BY
    objs,               \* the Match objects, in the order of their creation
    matches,            \* Tournament.matches: a list of Match objects (ids)
    bracket,            \* SingleEliminationTournament.bracket: match -> parent
    sources,            \* SingleEliminationTournament.sources: match -> (top, bot)
    current_round,      \* SwissTournament.current_round
    opponents,          \* SwissTournament.opponents: participant -> list
    callbacks,          \* CallbackMixin._callbacks: event name -> handlers
    fired,              \* the events triggered by the last start()/report_result()
    invoked,            \* the handlers that call invoked, in order
    raised,             \* the exception the last call ended with, or "none"
    completions,        \* how many times on_complete was triggered
    ranking,            \* what the last call of get_players_by_rank returned
    prevRanking,        \* what the call before that returned
    misuses             \* the driver's calls so far that the interface forbids

vars == <<format, participants, num_players, rounds, tournament_score, objs,
          matches, bracket, sources, current_round, opponents, callbacks,
          fired, invoked, raised, completions, ranking, prevRanking, misuses>>

\* The tournament object as one value: the operators below are the methods,
\* each a function from the object before the call to the object after it.
Self ==
    [format |-> format, participants |-> participants,
     num_players |-> num_players, rounds |-> rounds,
     tournament_score |-> tournament_score, objs |-> objs,
     matches |-> matches, bracket |-> bracket, sources |-> sources,
     current_round |-> current_round, opponents |-> opponents,
     callbacks |-> callbacks, fired |-> fired, invoked |-> invoked,
     raised |-> raised, completions |-> completions,
     ranking |-> ranking, prevRanking |-> prevRanking]

Commit(t) ==
    /\ format' = t.format
    /\ participants' = t.participants
    /\ num_players' = t.num_players
    /\ rounds' = t.rounds
    /\ tournament_score' = t.tournament_score
    /\ objs' = t.objs
    /\ matches' = t.matches
    /\ bracket' = t.bracket
    /\ sources' = t.sources
    /\ current_round' = t.current_round
    /\ opponents' = t.opponents
    /\ callbacks' = t.callbacks
    /\ fired' = t.fired
    /\ invoked' = t.invoked
    /\ raised' = t.raised
    /\ completions' = t.completions
    /\ ranking' = t.ranking
    /\ prevRanking' = t.prevRanking

\* ------------------------------------------------------------- sequences

Front(s) == SubSeq(s, 1, Len(s) - 1)

Last(s) == s[Len(s)]

RemoveAt(s, i) == SubSeq(s, 1, i - 1) \o SubSeq(s, i + 1, Len(s))

Contains(s, x) == \E i \in 1..Len(s) : s[i] = x

SetMin(S) == CHOOSE x \in S : \A y \in S : x <= y

Range(s) == {s[i] : i \in 1..Len(s)}

\* ---------------------------------------------------------------- Match

\* Match.__init__
NewMatch(home, away) ==
    [home |-> home, away |-> away, winner |-> NoneVal, loser |-> NoneVal]

\* Match.active
active(o) == o.home # NoneVal /\ o.away # NoneVal /\ o.winner = NoneVal

\* Match.is_complete
is_complete(o) == o.winner # NoneVal

\* The loser Match.report_result derives from the winner it is given.
loser_of(o, winner) ==
    IF winner = TIE THEN TIE
    ELSE IF winner = o.home THEN o.away
    ELSE o.home

\* -------------------------------------------------------- CallbackMixin

\* The handlers of an observer that only looks: those of example.py, and
\* two more.
Observers ==
    {"on_start", "on_complete", "on_match_ready", "on_match_complete",
     "on_round_complete", "f", "g"}

\* Handlers that, given a match that is ready, report its result before
\* they return: the home or the away participant wins.
Reporters == {"report_home", "report_away"}

RECURSIVE report_result(_, _, _)

\* handler(self, *args): the call is noted with what the handler finds of
\* the tournament; a reporter calls match.report_result.
CallHandler(t, handler, event, m) ==
    LET t1 == [t EXCEPT !.invoked =
                   Append(@, [handler |-> handler, event |-> event,
                              match |-> m, scores |-> t.tournament_score,
                              objs |-> t.objs,
                              current_round |-> t.current_round])]
    IN IF handler \in Reporters /\ event = "on_match_ready"
       THEN report_result(t1, m, IF handler = "report_home"
                                 THEN t1.objs[m].home ELSE t1.objs[m].away)
       ELSE t1

RECURSIVE CallHandlers(_, _, _, _)

\* A loop that calls the handlers from the last registered to the first.
CallHandlers_Reversed(t, handlers, event, m) ==
    IF t.raised # "none" \/ handlers = <<>> THEN t
    ELSE CallHandlers(CallHandler(t, handlers[Len(handlers)], event, m),
                      SubSeq(handlers, 1, Len(handlers) - 1), event, m)

\* trigger_event's loop over the handlers of the event.
CallHandlers(t, handlers, event, m) ==
    IF t.raised # "none" \/ handlers = <<>> THEN t
    ELSE CallHandlers(CallHandler(t, Head(handlers), event, m),
                      Tail(handlers), event, m)

\* self._callbacks.get(event, [])
HandlersOf(registry, event) ==
    IF event \in DOMAIN registry THEN registry[event] ELSE <<>>

\* CallbackMixin.trigger_event.  Beside the calls of the handlers the model
\* keeps the firing itself: its name and its match argument.
trigger_event(t, event, m) ==
    IF t.raised # "none" THEN t
    ELSE CallHandlers(
            [t EXCEPT !.fired = Append(@, [event |-> event, match |-> m]),
                      !.completions = IF event = "on_complete" THEN @ + 1
                                      ELSE @],
            HandlersOf(t.callbacks, event), event, m)

\* CallbackMixin.add_callback
add_callback(t, event, handler) ==
    [t EXCEPT !.callbacks =
        [e \in DOMAIN @ \cup {event} |->
            IF e = event THEN Append(HandlersOf(@, event), handler) ELSE @[e]]]

\* ----------------------------------------------------------- Tournament

\* Tournament.calc_match_points.  An attribute of None or of the int TIE
\* cannot be read: AttributeError, after the additions already made.
calc_match_points(t, m) ==
    LET o == t.objs[m] IN
    IF t.raised # "none" THEN t
    ELSE IF o.winner = TIE
    THEN IF o.home = NoneVal THEN [t EXCEPT !.raised = "AttributeError"]
         ELSE LET t1 == [t EXCEPT !.tournament_score[o.home] = @ + 1] IN
              IF o.away = NoneVal THEN [t1 EXCEPT !.raised = "AttributeError"]
              ELSE [t1 EXCEPT !.tournament_score[o.away] = @ + 1]
    ELSE LET t1 == [t EXCEPT !.tournament_score[o.winner] = @ + 3] IN
         IF o.loser = NoneVal THEN [t1 EXCEPT !.raised = "AttributeError"]
         ELSE [t1 EXCEPT !.tournament_score[o.loser] = @ + 0]

\* A sort that is not stable: an element is placed before the elements of
\* equal key.
InsertByScore_Unstable(ranked, p, score) ==
    LET k == Cardinality({i \in 1..Len(ranked) : score[ranked[i]] > score[p]})
    IN SubSeq(ranked, 1, k) \o <<p>> \o SubSeq(ranked, k + 1, Len(ranked))

\* sorted(..., reverse=True) is stable: an element is placed after every
\* element whose key is at least its own.
InsertByScore(ranked, p, score) ==
    LET k == Cardinality({i \in 1..Len(ranked) : score[ranked[i]] >= score[p]})
    IN SubSeq(ranked, 1, k) \o <<p>> \o SubSeq(ranked, k + 1, Len(ranked))

RECURSIVE SortedByScore(_, _)
SortedByScore(list, score) ==
    IF list = <<>> THEN <<>>
    ELSE InsertByScore(SortedByScore(Front(list), score), Last(list), score)

\* Tournament.get_players_by_rank
get_players_by_rank(t) == SortedByScore(t.participants, t.tournament_score)

\* The call of get_players_by_rank, recorded: what it returned and what the
\* call before it had returned.
RankCall(t) ==
    [t EXCEPT !.prevRanking = t.ranking, !.ranking = get_players_by_rank(t)]

\* ------------------------------------------------------ SwissTournament

\* self.opponents.setdefault(p, [])
Opp(t, p) == IF p \in DOMAIN t.opponents THEN t.opponents[p] ELSE <<>>

AddOpponent(opp, p, q) ==
    [x \in DOMAIN opp \cup {p} |->
        IF x = p THEN Append(IF p \in DOMAIN opp THEN opp[p] ELSE <<>>, q)
        ELSE opp[x]]

\* A pairing that records the opponent for home alone.
PairUp_OneWay(t, home, away) ==
    LET id == Len(t.objs) + 1
        t1 == [t EXCEPT !.objs = Append(@, NewMatch(home, away)),
                        !.opponents = AddOpponent(@, home, away),
                        !.matches = Append(@, id)]
    IN trigger_event(t1, "on_match_ready", id)

\* The body of setup_round's while loop after home and away are chosen.
PairUp(t, home, away) ==
    LET id == Len(t.objs) + 1
        t1 == [t EXCEPT !.objs = Append(@, NewMatch(home, away)),
                        !.opponents = AddOpponent(AddOpponent(@, home, away),
                                                  away, home),
                        !.matches = Append(@, id)]
    IN trigger_event(t1, "on_match_ready", id)

\* A scan that takes the last player home has not played, not the first.
FirstUnplayed_Last(t, home, queue) ==
    LET unplayed == {i \in 1..Len(queue) : ~Contains(Opp(t, home), queue[i])}
    IN IF unplayed = {} THEN 0
       ELSE CHOOSE i \in unplayed : \A j \in unplayed : j <= i

\* The scan with its test inverted: the first player home has played.
FirstUnplayed_Inverted(t, home, queue) ==
    LET played == {i \in 1..Len(queue) : Contains(Opp(t, home), queue[i])}
    IN IF played = {} THEN 0 ELSE SetMin(played)

\* The away setup_round chooses for home among the players still queued:
\* the index of the first one home has not played, 0 when there is none.
FirstUnplayed(t, home, queue) ==
    LET unplayed == {i \in 1..Len(queue) : ~Contains(Opp(t, home), queue[i])}
    IN IF unplayed = {} THEN 0 ELSE SetMin(unplayed)

\* setup_round's while loop over the deque of players.
RECURSIVE PairPlayers(_, _)
PairPlayers(t, players) ==
    IF t.raised # "none" \/ players = <<>> THEN t
    ELSE LET home == Head(players)
             queue == Tail(players)
             i == FirstUnplayed(t, home, queue)
         IN IF i # 0
            THEN PairPlayers(PairUp(t, home, queue[i]), RemoveAt(queue, i))
            ELSE IF queue = <<>>
            THEN [t EXCEPT !.raised = "IndexError"]
            ELSE PairPlayers(PairUp(t, home, Head(queue)), Tail(queue))

\* SwissTournament.setup_round
setup_round(t) ==
    IF t.raised # "none" THEN t
    ELSE LET t1 == RankCall([t EXCEPT !.current_round = @ + 1])
             t2 == PairPlayers(t1, t1.ranking)
         IN trigger_event(t2, "on_start_round", NoMatch)

\* A completion test that looks at the newest match alone.
is_round_complete_LastOnly(t) ==
    t.matches = <<>> \/ is_complete(t.objs[Last(t.matches)])

\* SwissTournament.is_round_complete
is_round_complete(t) ==
    Cardinality({i \in 1..Len(t.matches) : ~is_complete(t.objs[t.matches[i]])}) = 0

\* A result step that sets up rounds and never ends the tournament.
Swiss_process_match_result_NoEnd(t, m) ==
    IF t.raised # "none" THEN t
    ELSE IF is_round_complete(t) /\ t.current_round # t.rounds
    THEN setup_round(t)
    ELSE t

\* SwissTournament.process_match_result
Swiss_process_match_result(t, m) ==
    IF t.raised # "none" THEN t
    ELSE IF is_round_complete(t)
    THEN IF t.current_round # t.rounds
         THEN setup_round(t)
         ELSE trigger_event(t, "on_complete", NoMatch)
    ELSE t

\* SwissTournament.seed_players
Swiss_seed_players(t) == setup_round(t)

\* ------------------------------------------ SingleEliminationTournament

RECURSIVE Pow2(_)
Pow2(r) == IF r = 0 THEN 1 ELSE 2 * Pow2(r - 1)

\* int(math.ceil(math.log(n, 2))) for n >= 1: the least r with 2^r >= n
\* (the floating-point quotient is exact for the sizes modelled here).
RECURSIVE CeilLog2From(_, _)
CeilLog2From(n, r) == IF Pow2(r) >= n THEN r ELSE CeilLog2From(n, r + 1)

CeilLog2(n) == CeilLog2From(n, 0)

\* self.field_size
field_size(t) == Pow2(t.rounds)

\* [BY] * k
RECURSIVE Byes(_)
Byes(k) == IF k <= 0 THEN <<>> ELSE <<Bye>> \o Byes(k - 1)

\* seed_players' first loop: the first-round matches, made from the front
\* and the back of the player queue.  A match is created and announced
\* here, and joins self.matches only in the second loop.  The result is the
\* tournament and the match queue.
RECURSIVE SeedFirstRound(_, _, _)
SeedFirstRound(t, player_queue, match_queue) ==
    IF t.raised # "none" \/ player_queue = <<>>
    THEN [t |-> t, match_queue |-> match_queue]
    ELSE IF Len(player_queue) = 1
    THEN [t |-> [t EXCEPT !.raised = "IndexError"], match_queue |-> match_queue]
    ELSE LET home == Head(player_queue)
             away == Last(player_queue)
             id == Len(t.objs) + 1
             t1 == [t EXCEPT !.objs = Append(@, NewMatch(home, away))]
         IN SeedFirstRound(trigger_event(t1, "on_match_ready", id),
                           Front(Tail(player_queue)),
                           Append(match_queue, id))

\* A bracket that records the parent of top and forgets bot's.
JoinPair_TopOnly(t, top, bot) ==
    LET id == Len(t.objs) + 1 IN
    [t EXCEPT !.objs = Append(@, NewMatch(NoneVal, NoneVal)),
              !.bracket = [x \in DOMAIN @ \cup {top} |->
                              IF x = top THEN id ELSE @[x]],
              !.sources = [x \in DOMAIN @ \cup {id} |->
                              IF x = id THEN <<top, bot>> ELSE @[x]],
              !.matches = @ \o <<top, bot>>]

\* One turn of seed_players' second loop: top and bot get a new parent.
JoinPair(t, top, bot) ==
    LET id == Len(t.objs) + 1 IN
    [t EXCEPT !.objs = Append(@, NewMatch(NoneVal, NoneVal)),
              !.bracket = [x \in DOMAIN @ \cup {top, bot} |->
                              IF x \in {top, bot} THEN id ELSE @[x]],
              !.sources = [x \in DOMAIN @ \cup {id} |->
                              IF x = id THEN <<top, bot>> ELSE @[x]],
              !.matches = @ \o <<top, bot>>]

\* seed_players' second loop, and the append of the final after it.
RECURSIVE BuildBracket(_, _)
BuildBracket(t, match_queue) ==
    IF t.raised # "none" THEN t
    ELSE IF Len(match_queue) > 1
    THEN LET top == match_queue[1]
             bot == match_queue[2]
         IN BuildBracket(JoinPair(t, top, bot),
                         Append(Tail(Tail(match_queue)), Len(t.objs) + 1))
    ELSE IF match_queue = <<>> THEN [t EXCEPT !.raised = "IndexError"]
    ELSE [t EXCEPT !.matches = Append(@, Last(match_queue))]

\* An advancement that takes a match nobody feeds for the final: it looks
\* the match up in sources instead of bracket.
Single_process_match_result_BySources(t, m) ==
    IF t.raised # "none" THEN t
    ELSE IF m \notin DOMAIN t.sources
    THEN trigger_event(t, "on_complete", NoMatch)
    ELSE IF m \notin DOMAIN t.bracket THEN t
    ELSE LET winner_match == t.bracket[m]
             t1 == IF m = t.sources[winner_match][1]
                   THEN [t EXCEPT !.objs[winner_match].home = t.objs[m].winner]
                   ELSE [t EXCEPT !.objs[winner_match].away = t.objs[m].winner]
         IN IF active(t1.objs[winner_match])
            THEN trigger_event(t1, "on_match_ready", winner_match)
            ELSE t1

\* An advancement that always writes the home slot of the parent.
Single_process_match_result_HomeOnly(t, m) ==
    IF t.raised # "none" THEN t
    ELSE IF m \notin DOMAIN t.bracket
    THEN trigger_event(t, "on_complete", NoMatch)
    ELSE LET winner_match == t.bracket[m]
             t1 == [t EXCEPT !.objs[winner_match].home = t.objs[m].winner]
         IN IF active(t1.objs[winner_match])
            THEN trigger_event(t1, "on_match_ready", winner_match)
            ELSE t1

\* An advancement that sends the loser on instead of the winner.
Single_process_match_result_Loser(t, m) ==
    IF t.raised # "none" THEN t
    ELSE IF m \notin DOMAIN t.bracket
    THEN trigger_event(t, "on_complete", NoMatch)
    ELSE LET winner_match == t.bracket[m]
             t1 == IF m = t.sources[winner_match][1]
                   THEN [t EXCEPT !.objs[winner_match].home = t.objs[m].loser]
                   ELSE [t EXCEPT !.objs[winner_match].away = t.objs[m].loser]
         IN IF active(t1.objs[winner_match])
            THEN trigger_event(t1, "on_match_ready", winner_match)
            ELSE t1

\* SingleEliminationTournament.process_match_result.  match.winner is asked
\* for set_current_match, which the int TIE does not have.
Single_process_match_result(t, m) ==
    IF t.raised # "none" THEN t
    ELSE IF m \notin DOMAIN t.bracket
    THEN trigger_event(t, "on_complete", NoMatch)
    ELSE LET winner_match == t.bracket[m]
             winner == t.objs[m].winner
             home_source == t.sources[winner_match][1]
             t1 == IF m = home_source
                   THEN [t EXCEPT !.objs[winner_match].home = winner]
                   ELSE [t EXCEPT !.objs[winner_match].away = winner]
         IN IF winner = TIE THEN [t EXCEPT !.raised = "AttributeError"]
            ELSE IF active(t1.objs[winner_match])
            THEN trigger_event(t1, "on_match_ready", winner_match)
            ELSE t1

\* ------------------------------------------------- results and the start

\* The format's process_match_result.
process_match_result(t, m) ==
    IF t.format = "swiss" THEN Swiss_process_match_result(t, m)
    ELSE Single_process_match_result(t, m)

\* A result handler that runs the scoring step twice.
handle_match_result_ScoredTwice(t, m) ==
    process_match_result(
        trigger_event(calc_match_points(calc_match_points(t, m), m),
                      "on_match_complete", m), m)

\* A result handler that fires on_match_complete before it scores.
handle_match_result_EventFirst(t, m) ==
    process_match_result(
        calc_match_points(trigger_event(t, "on_match_complete", m), m), m)

\* Tournament.handle_match_result
handle_match_result(t, m) ==
    process_match_result(
        trigger_event(calc_match_points(t, m), "on_match_complete", m), m)

\* Match.report_result
report_result(t, m, winner) ==
    IF t.raised # "none" THEN t
    ELSE handle_match_result(
            [t EXCEPT !.objs[m].winner = winner,
                      !.objs[m].loser = loser_of(t.objs[m], winner)], m)

RECURSIVE ReportByes(_, _)

\* A loop that stops at the first match against BY.
ReportByes_FirstOnly(t, i) ==
    IF t.raised # "none" \/ i > Len(t.matches) THEN t
    ELSE LET m == t.matches[i] IN
         IF t.objs[m].away = Bye
         THEN report_result(t, m, t.objs[m].home)
         ELSE ReportByes(t, i + 1)

\* seed_players' last loop: the matches against BY, in the order of
\* self.matches, from index i on.
ReportByes(t, i) ==
    IF t.raised # "none" \/ i > Len(t.matches) THEN t
    ELSE LET m == t.matches[i] IN
         IF t.objs[m].away = Bye
         THEN ReportByes(report_result(t, m, t.objs[m].home), i + 1)
         ELSE ReportByes(t, i + 1)

\* SingleEliminationTournament.seed_players
Single_seed_players(t) ==
    LET t1 == [t EXCEPT !.rounds = CeilLog2(t.num_players)]
        queue == t1.participants \o Byes(field_size(t1) - t1.num_players)
        first == SeedFirstRound(t1, queue, <<>>)
    IN ReportByes(BuildBracket(first.t, first.match_queue), 1)

\* The format's seed_players.
seed_players(t) ==
    IF t.format = "swiss" THEN Swiss_seed_players(t)
    ELSE Single_seed_players(t)

\* Tournament.start
start(t) ==
    LET t1 == [t EXCEPT !.num_players = Len(t.participants),
                        !.tournament_score =
                            [p \in DOMAIN @ |->
                                IF p \in Range(t.participants) THEN 0 ELSE @[p]]]
    IN seed_players(trigger_event(t1, "on_start", NoMatch))

\* A call begins: nothing fired yet, nothing raised.
Begin(t) == [t EXCEPT !.fired = <<>>, !.invoked = <<>>, !.raised = "none"]

\* ---------------------------------------------------------- the machine

\* The configurations a driver builds: a format, its participants and, for
\* the Swiss format, the number of rounds.
SwissSizes == {n \in 2..MaxSwissPlayers : n % 2 = 0}

SingleSizes == 2..MaxPlayers

SwissRounds(n, maxMatches) == {r \in 1..maxMatches : r * (n \div 2) <= maxMatches}

\* The state after construction, for a set of sizes of either format and a
\* bound on the matches of a Swiss configuration.
Constructed(swissSizes, singleSizes, maxMatches) ==
    /\ format \in Formats
    /\ \E n \in (IF format = "swiss" THEN swissSizes ELSE singleSizes) :
          /\ participants = [i \in 1..n |-> i]
          /\ tournament_score = [p \in 0..n |-> 0]
          /\ rounds \in (IF format = "swiss" THEN SwissRounds(n, maxMatches)
                                                  ELSE {0})
    /\ num_players = 0
    /\ objs = <<>>
    /\ matches = <<>>
    /\ bracket = <<>>
    /\ sources = <<>>
    /\ current_round = 0
    /\ opponents = <<>>
    /\ fired = <<>>
    /\ invoked = <<>>
    /\ raised = "none"
    /\ completions = 0
    /\ ranking = <<>>
    /\ prevRanking = <<>>
    /\ misuses = 0

\* The handlers example.py registers, one under each of five names (its
\* on_complete handler ends the process, after the last thing the call does).
ExampleCallbacks ==
    [e \in {"on_start", "on_complete", "on_match_ready", "on_match_complete",
            "on_round_complete"} |-> <<e>>]

Init ==
    /\ Constructed(SwissSizes, SingleSizes, MaxSwissMatches)
    /\ callbacks = ExampleCallbacks

\* tournament.start(), once.
Start ==
    /\ num_players = 0
    /\ Commit(start(Begin(Self)))
    /\ UNCHANGED misuses

\* match.report_result(winner)
Report(m, winner) == Commit(report_result(Begin(Self), m, winner))

\* The winners a driver may report for a match: one of its two slots or,
\* in the Swiss format, a tie.
ValidWinners(m) ==
    {objs[m].home, objs[m].away} \cup (IF format = "swiss" THEN {TIE} ELSE {})

\* A driver reports the result of an active match.
ReportActive ==
    \E m \in Range(matches) :
        /\ active(objs[m])
        /\ \E winner \in ValidWinners(m) : Report(m, winner)
        /\ UNCHANGED misuses

\* A caller asks for the ranking.
Rank ==
    /\ num_players # 0
    /\ Commit(RankCall(Self))
    /\ UNCHANGED misuses

Next ==
    \/ Start
    \/ ReportActive
    \/ Rank

Spec == Init /\ [][Next]_vars

\* -------------------------------------- a driver that reports them all

\* example.py's driver: it starts the tournament and then, for as long as
\* there is an active match, picks one and reports a result for it.
FairInit ==
    /\ Constructed({n \in SwissSizes : n <= MaxFairPlayers},
                   {n \in SingleSizes : n <= MaxFairPlayers},
                   MaxFairMatches)
    /\ callbacks = ExampleCallbacks

FairNext ==
    \/ Start
    \/ ReportActive

\* A report of a result for an active match, told by its first effect
\* alone, the points of calc_match_points: such a step is possible exactly
\* when a match is active, and every report is such a step.
ResultScored ==
    \E m \in Range(matches) :
        /\ active(objs[m])
        /\ \E winner \in ValidWinners(m) :
              tournament_score' =
                  calc_match_points(
                      [Self EXCEPT !.objs[m].winner = winner,
                                   !.objs[m].loser = loser_of(objs[m], winner)],
                      m).tournament_score

\* The driver's loop goes on: while a match is active, a result is
\* reported in the end.
FairSpec ==
    /\ FairInit
    /\ [][FairNext]_vars
    /\ WF_tournament_score(ResultScored)

\* ------------------------------------- a driver that registers handlers

\* The event names a driver registers handlers under: those the tournament
\* fires and the one example.py registers that is never fired.
EventNames ==
    {"on_start", "on_complete", "on_match_ready", "on_match_complete",
     "on_start_round", "on_round_complete"}

Registrations(registry) ==
    IF DOMAIN registry = {} THEN 0
    ELSE LET RECURSIVE Sum(_)
             Sum(E) == IF E = {} THEN 0
                       ELSE LET e == CHOOSE x \in E : TRUE
                            IN Len(registry[e]) + Sum(E \ {e})
         IN Sum(DOMAIN registry)

\* tournament.add_callback(event, handler)
AddCallback ==
    /\ Registrations(callbacks) < MaxCallbacks
    /\ \E event \in EventNames : \E handler \in {"f", "g"} :
          Commit(add_callback(Self, event, handler))
    /\ UNCHANGED misuses

\* A tournament as constructed: CallbackMixin.__init__ leaves the registry
\* empty.
CallbackInit ==
    /\ Constructed({n \in SwissSizes : n <= MaxCallbackPlayers},
                   {n \in SingleSizes : n <= MaxCallbackPlayers},
                   MaxCallbackMatches)
    /\ callbacks = <<>>

CallbackNext ==
    \/ AddCallback
    \/ Start
    \/ ReportActive

CallbackSpec == CallbackInit /\ [][CallbackNext]_vars

\* ---------------------------- a handler that reports the match it gets

\* The driver adds, to example.py's handlers, an on_match_ready handler
\* that reports the result of its match before it returns.
AddReporter ==
    /\ Range(callbacks["on_match_ready"]) \cap Reporters = {}
    /\ \E handler \in Reporters :
          Commit(add_callback(Self, "on_match_ready", handler))
    /\ UNCHANGED misuses

ReentrantInit ==
    /\ Constructed({n \in SwissSizes : n <= MaxReentrantPlayers},
                   {n \in SingleSizes : n <= MaxReentrantPlayers},
                   MaxReentrantMatches)
    /\ callbacks = ExampleCallbacks

ReentrantNext ==
    \/ AddReporter
    \/ Start
    \/ ReportActive

ReentrantSpec == ReentrantInit /\ [][ReentrantNext]_vars

\* ------------------------------------------- a driver that misuses it

\* A driver reports a result for a match that already has one.
ReportCompleted ==
    /\ misuses < MaxMisuses
    /\ \E m \in Range(matches) :
          /\ is_complete(objs[m])
          /\ \E winner \in {objs[m].home, objs[m].away, TIE} : Report(m, winner)
    /\ misuses' = misuses + 1

\* A driver reports a tie for an active match of an elimination bracket.
ReportTieInBracket ==
    /\ misuses < MaxMisuses
    /\ format = "single"
    /\ \E m \in Range(matches) : active(objs[m]) /\ Report(m, TIE)
    /\ misuses' = misuses + 1

\* The participants that stand in neither slot of match m, BY among them.
ForeignWinners(m) ==
    (Range(participants) \cup {Bye}) \ {objs[m].home, objs[m].away}

\* A driver reports, for an active match, a winner that is in neither slot.
ReportForeign ==
    /\ misuses < MaxMisuses
    /\ \E m \in Range(matches) :
          /\ active(objs[m])
          /\ \E winner \in ForeignWinners(m) : Report(m, winner)
    /\ misuses' = misuses + 1

\* A driver calls start() on a tournament that was started.
StartAgain ==
    /\ misuses < MaxMisuses
    /\ num_players # 0
    /\ Commit(start(Begin(Self)))
    /\ misuses' = misuses + 1

\* A driver goes on reporting results for as long as the match list is
\* within the bound (a Swiss tournament started twice may never end).
ReportActiveBounded ==
    /\ Len(matches) <= MaxMisuseMatches
    /\ ReportActive

\* The configurations of a careless driver: a Swiss tournament may have an
\* odd number of participants.
MisuseInit ==
    /\ Constructed(2..MaxMisusePlayers,
                   {n \in SingleSizes : n <= MaxMisusePlayers},
                   MaxMisuseMatches)
    /\ callbacks = ExampleCallbacks

MisuseNext ==
    \/ Start
    \/ ReportActiveBounded
    \/ ReportCompleted
    \/ ReportTieInBracket
    \/ ReportForeign
    \/ StartAgain

MisuseSpec == MisuseInit /\ [][MisuseNext]_vars

\* ================================================================ claims

\* What a rejected call leaves behind: an error, and nothing else touched.
Rejected ==
    /\ raised' # "none"
    /\ fired' = <<>>
    /\ UNCHANGED <<tournament_score, objs, matches, bracket, sources,
                   current_round, opponents, completions>>

\* C1: a report_result call on a match that already has a recorded winner
\* fails, and leaves the scores, the match's winner, the match list and the
\* bracket and round state as they were, and fires no event.
C1_SecondReportRejected ==
    [][\A m \in Range(matches) :
         \A winner \in {objs[m].home, objs[m].away, TIE} :
            (is_complete(objs[m]) /\ Report(m, winner)) => Rejected]_vars

\* The points one result gives participant p under the default policy.
Points(o, winner, p) ==
    IF winner = TIE THEN (IF p \in {o.home, o.away} THEN 1 ELSE 0)
    ELSE IF p = winner THEN 3 ELSE 0

\* The matches start() reports itself: a participant against BY.
ByeMatchesOf(p) == {m \in 1..Len(objs) : objs[m].home = p /\ objs[m].away = Bye}

\* C2: each reported result applies the scoring policy exactly once: 3 to
\* the winner and 0 to the loser, or 1 to home and to away for a tie, and
\* nothing to a participant outside the match (start() reports the matches
\* against BY itself, each once); so no score ever decreases.
C2_ScoredOncePerResult ==
    [][/\ \A m \in Range(matches) : \A winner \in ValidWinners(m) :
            (active(objs[m]) /\ Report(m, winner)) =>
                \A p \in DOMAIN tournament_score :
                    tournament_score'[p] =
                        tournament_score[p] + Points(objs[m], winner, p)
       /\ Start =>
            \A p \in DOMAIN tournament_score :
                tournament_score'[p] = 3 * Cardinality(ByeMatchesOf(p)')
       /\ \A p \in DOMAIN tournament_score :
            tournament_score'[p] >= tournament_score[p]]_vars

\* C2's case: a Swiss tournament with a tie and a win recorded, a bracket
\* with a bye scored and a win recorded.
C2_Witness ==
    \/ /\ format = "swiss"
       /\ \E m1, m2 \in Range(matches) :
            /\ objs[m1].winner = TIE
            /\ tournament_score[objs[m1].home] = 1
            /\ objs[m2].winner = objs[m2].away
            /\ tournament_score[objs[m2].away] = 3
            /\ tournament_score[objs[m2].home] = 0
    \/ /\ format = "single"
       /\ \E m1, m2 \in Range(matches) :
            /\ objs[m1].away = Bye
            /\ objs[m2].away # Bye
            /\ is_complete(objs[m2])
            /\ objs[m2].winner = objs[m2].away
            /\ tournament_score[objs[m2].away] = 6

\* ---------------------------------------------------------------- ranking

IndexIn(list, x) == CHOOSE i \in 1..Len(list) : list[i] = x

\* The ranking holds every participant once.
RanksEveryone ==
    /\ Len(ranking) = Len(participants)
    /\ Range(ranking) = Range(participants)

\* The ranking is in descending order of the scores.
Descending ==
    \A i, j \in 1..Len(ranking) :
        i < j => tournament_score[ranking[i]] >= tournament_score[ranking[j]]

\* Participants of equal score stand in the ranking as they stand in ref.
TiesFollow(ref) ==
    \A i, j \in 1..Len(ranking) :
        (i < j /\ tournament_score[ranking[i]] = tournament_score[ranking[j]])
            => IndexIn(ref, ranking[i]) < IndexIn(ref, ranking[j])

\* A step in which get_players_by_rank is called: by the caller, or by
\* setup_round as a round begins.
RankingStep == Rank \/ current_round' # current_round

\* C3 as stated: the ranking is in descending score order, and participants
\* of equal score keep their relative order from the previous ranking
\* (the insertion order where there is no previous ranking).
C3_TiesKeepPreviousRanking ==
    [][RankingStep =>
         (/\ RanksEveryone
          /\ Descending
          /\ TiesFollow(IF prevRanking = <<>> THEN participants
                        ELSE prevRanking))']_vars

\* C3 amended: the ranking is in descending score order, and participants
\* of equal score keep their relative order in the participant list (the
\* insertion order), whatever the previous ranking was.
C3_TiesKeepInsertionOrder ==
    [][RankingStep =>
         (RanksEveryone /\ Descending /\ TiesFollow(participants))']_vars

\* C3's case: a ranking of the present scores in which two participants of
\* equal score stand in the opposite order of the previous ranking.
C3_Witness ==
    /\ ranking # <<>>
    /\ prevRanking # <<>>
    /\ ranking = get_players_by_rank(Self)
    /\ \E p, q \in Range(participants) :
          /\ tournament_score[p] = tournament_score[q]
          /\ tournament_score[p] > 0
          /\ IndexIn(ranking, p) < IndexIn(ranking, q)
          /\ IndexIn(prevRanking, q) < IndexIn(prevRanking, p)

\* ----------------------------------------------------------- Swiss rounds

\* The matches of one Swiss round.
PerRound == Len(participants) \div 2

\* The round in which the match at position k of the match list was made.
RoundOfPos(k) == ((k - 1) \div PerRound) + 1

SlotsAt(k) == {objs[matches[k]].home, objs[matches[k]].away}

\* p and q met in a match made before the one at position k.
MetBefore(p, q, k) == \E j \in 1..(k - 1) : SlotsAt(j) = {p, q}

\* The participants not yet paired in its round when the match at position
\* k was made: those of this match and of the later matches of the round.
StillQueued(k) ==
    UNION {SlotsAt(j) : j \in {i \in k..Len(matches) : RoundOfPos(i) = RoundOfPos(k)}}

\* C4 as stated: a participant is paired with an opponent it has already
\* faced only when it has already faced every other participant.
C4_RepeatOnlyWhenAllFaced ==
    format = "swiss" =>
        \A k \in 1..Len(matches) :
            LET o == objs[matches[k]] IN
            MetBefore(o.home, o.away, k) =>
                \A p \in {o.home, o.away} :
                    \A q \in Range(participants) \ {p} : MetBefore(p, q, k)

\* C4 amended: a match pairs two participants that have already met only
\* when its home participant has already faced every participant that was
\* still unpaired in that round when the match was made.
C4_RepeatOnlyWhenQueueFaced ==
    format = "swiss" =>
        \A k \in 1..Len(matches) :
            LET o == objs[matches[k]] IN
            MetBefore(o.home, o.away, k) =>
                \A q \in StillQueued(k) \ {o.home} : MetBefore(o.home, q, k)

\* C4's case: a repeat pairing whose home participant has a participant
\* left that it never faced.
C4_Witness ==
    /\ format = "swiss"
    /\ \E k \in 1..Len(matches) :
          LET o == objs[matches[k]] IN
          /\ MetBefore(o.home, o.away, k)
          /\ \E q \in Range(participants) \ {o.home} : ~MetBefore(o.home, q, k)

\* The match at every position up to n has a result.
AllComplete(os, n) == \A i \in 1..n : is_complete(os[matches[i]])

\* C5: in the Swiss format a result advances nothing while a match of the
\* round is open; the result that completes round r < R sets up round r+1;
\* the one that completes round R fires on_complete and creates no match:
\* R*N/2 matches exist then, and the round counter is R.
C5_RoundAdvance ==
    [][format = "swiss" =>
        /\ (\E m \in Range(matches) : \E winner \in ValidWinners(m) :
                active(objs[m]) /\ Report(m, winner)) =>
             IF ~AllComplete(objs', Len(matches))
             THEN /\ UNCHANGED <<current_round, matches, completions>>
                  /\ Len(fired') = 1
             ELSE IF current_round < rounds
             THEN /\ current_round' = current_round + 1
                  /\ Len(matches') = Len(matches) + PerRound
                  /\ completions' = 0
             ELSE /\ UNCHANGED <<current_round, matches>>
                  /\ completions' = 1
                  /\ fired'[Len(fired')].event = "on_complete"
        /\ (completions' > 0 =>
                /\ current_round' = rounds
                /\ Len(matches') = rounds * PerRound
                /\ AllComplete(objs', Len(matches')))
        /\ (num_players' # 0 =>
                /\ current_round' \in 1..rounds
                /\ Len(matches') = current_round' * PerRound)]_vars

\* C5's case: a Swiss tournament of more than one round has completed.
C5_Witness ==
    /\ format = "swiss"
    /\ rounds >= 2
    /\ Len(participants) >= 4
    /\ completions = 1
    /\ current_round = rounds

\* ------------------------------------------------------------ the bracket

\* The matches no parent is recorded for.
Finals == {m \in Range(matches) : m \notin DOMAIN bracket}

\* The first-round matches: those that are nobody's parent.
Leaves == {m \in Range(matches) : m \notin DOMAIN sources}

Incomplete == {m \in Range(matches) : ~is_complete(objs[m])}

EventsFired == {fired[i].event : i \in 1..Len(fired)}

\* C6: in the single-elimination format on_complete fires exactly once,
\* by the call that reports the result of the final, and by no result of
\* another match, the results start() reports against BY included.
C6_CompleteOnceAfterFinal ==
    format = "single" =>
        /\ completions = Cardinality({m \in Finals : is_complete(objs[m])})
        /\ completions <= 1
        /\ "on_complete" \in EventsFired =>
              \E f \in Finals :
                 fired = <<[event |-> "on_match_complete", match |-> f],
                           [event |-> "on_complete", match |-> NoMatch]>>

\* C6's case: a bracket with a bye and more than one round has completed.
C6_Witness ==
    /\ format = "single"
    /\ num_players = 5
    /\ completions = 1
    /\ "on_complete" \in EventsFired

\* The smallest power of two that is at least n.
NextPowerOfTwo(n) ==
    CHOOSE f \in 1..(2 * n) :
        /\ \E r \in 0..n : f = 2^r
        /\ f >= n
        /\ \A g \in 1..(f - 1) : (\E r \in 0..n : g = 2^r) => g < n

\* C7: after start() the bracket is a complete binary tree over the match
\* list: field_size/2 first-round matches for field_size the smallest power
\* of two >= N, field_size-1 matches in all, one match without a parent,
\* two distinct sources for every placeholder, both with that placeholder
\* as parent, and every match before its parent in the match list.
C7_BracketIsCompleteTree ==
    (format = "single" /\ num_players # 0) =>
        LET F == NextPowerOfTwo(num_players) IN
        /\ Cardinality(Leaves) = F \div 2
        /\ Len(matches) = F - 1
        /\ Range(matches) = 1..Len(objs)
        /\ Cardinality(Range(matches)) = Len(matches)
        /\ Cardinality(Finals) = 1
        /\ DOMAIN sources = Range(matches) \ Leaves
        /\ \A ph \in DOMAIN sources :
              /\ sources[ph][1] # sources[ph][2]
              /\ {m \in DOMAIN bracket : bracket[m] = ph}
                    = {sources[ph][1], sources[ph][2]}
        /\ \A m \in DOMAIN bracket :
              /\ m \in Range(matches)
              /\ bracket[m] \in DOMAIN sources
              /\ IndexIn(matches, m) < IndexIn(matches, bracket[m])

\* C7's case: a started bracket of three rounds, padded with byes.
C7_Witness ==
    /\ format = "single"
    /\ num_players = 5
    /\ Len(matches) = 7
    /\ Cardinality(Leaves) = 4

\* The matches above m in the bracket.
RECURSIVE Ancestors(_)
Ancestors(m) ==
    IF m \notin DOMAIN bracket THEN {}
    ELSE {bracket[m]} \cup Ancestors(bracket[m])

\* The matches participant p lost.
Losses(p) == {m \in Range(matches) : objs[m].loser = p}

Slots(m) == {objs[m].home, objs[m].away}

\* C8: when on_complete has fired, the winner of the final is the one
\* participant that never lost; every other participant lost exactly one
\* match, and stands in no match above it: the other matches it stands in
\* lie below that match and were won by it.
C8_OneUndefeated ==
    (format = "single" /\ completions >= 1) =>
        \E f \in Finals :
            /\ {p \in Range(participants) : Losses(p) = {}} = {objs[f].winner}
            /\ \A p \in Range(participants) \ {objs[f].winner} :
                  /\ Cardinality(Losses(p)) = 1
                  /\ \A lost \in Losses(p) :
                        \A m \in Range(matches) \ {lost} :
                            p \in Slots(m) =>
                                /\ objs[m].winner = p
                                /\ lost \in Ancestors(m)

\* C8's case: a completed bracket of six whose champion came through the
\* first round without a bye.
C8_Witness ==
    /\ format = "single"
    /\ num_players = 6
    /\ completions = 1
    /\ \E f \in Finals : objs[f].winner \in {3, 4, 5, 6}

\* The first-round matches against BY.
ByeMatches == {m \in Leaves : objs[m].away = Bye}

\* The slot of its parent that match m feeds.
ParentSlot(m) ==
    IF sources[bracket[m]][1] = m THEN objs[bracket[m]].home
    ELSE objs[bracket[m]].away

\* The bracket as start() leaves it.
ByesResolved ==
    /\ \A m \in Leaves : objs[m].home # Bye
    /\ \A m \in ByeMatches :
          /\ objs[m].winner = objs[m].home
          /\ m \in DOMAIN bracket => ParentSlot(m) = objs[m].home
    /\ \A ph \in DOMAIN sources :
          (sources[ph][1] \in ByeMatches /\ sources[ph][2] \in ByeMatches)
              => active(objs[ph])
    /\ Incomplete = Range(matches) \ ByeMatches
    /\ Cardinality(Incomplete) = num_players - 1
    /\ completions = 0

\* C9: when start() returns every first-round match against BY is
\* completed in favour of its home participant, who stands in the parent's
\* slot; a parent of two such matches is ready; no first-round match has BY
\* at home; N-1 matches are open, each external result closes one of them,
\* and on_complete needs them all: two results for three participants.
C9_ByesResolvedAtStart ==
    [][format = "single" =>
        /\ Start => ByesResolved'
        /\ ReportActive => Cardinality(Incomplete') = Cardinality(Incomplete) - 1
        /\ completions' >= 1 => Incomplete' = {}]_vars

\* C9's case: start() has returned for five participants: three byes, the
\* parent of two of them ready, no external result yet.
C9_Witness ==
    /\ format = "single"
    /\ num_players = 5
    /\ Cardinality(ByeMatches) = 3
    /\ \E ph \in DOMAIN sources :
          /\ sources[ph][1] \in ByeMatches
          /\ sources[ph][2] \in ByeMatches
          /\ active(objs[ph])
    /\ Incomplete = Range(matches) \ ByeMatches

\* C10: in the single-elimination format a reported tie for a ready match
\* is rejected and changes nothing: no winner, no score, no parent slot,
\* no event.
C10_TieRejectedInBracket ==
    [][format = "single" =>
        \A m \in Range(matches) :
            (active(objs[m]) /\ Report(m, TIE)) => Rejected]_vars

\* --------------------------------------------------------- forbidden calls

\* C11: report_result with a winner that is neither the TIE marker nor the
\* match's home nor its away participant is rejected as an error: the
\* winner stays unset, no score changes, nothing advances, no event fires.
C11_ForeignWinnerRejected ==
    [][\A m \in Range(matches) :
         \A winner \in ForeignWinners(m) :
            (active(objs[m]) /\ Report(m, winner)) => Rejected]_vars

\* C12: a Swiss tournament with an odd number of participants is rejected
\* at construction: it never has a match, an opponent-history entry or an
\* advanced round counter, and no on_match_ready fires for it.
C12_OddSwissRejected ==
    (format = "swiss" /\ Len(participants) % 2 = 1) =>
        /\ matches = <<>>
        /\ objs = <<>>
        /\ opponents = <<>>
        /\ current_round = 0
        /\ "on_match_ready" \notin EventsFired

\* C13: a second start() on a started tournament is rejected: the scores,
\* the match list, the round counter, the opponent history and the bracket
\* maps stay as they were, and no on_start or on_match_ready fires.
C13_SecondStartRejected ==
    [][(num_players # 0 /\ Commit(start(Begin(Self)))) => Rejected]_vars

\* ------------------------------------------------ the order of a result

\* The calls of on_match_complete handlers among the calls inv.
CompleteCalls(inv) ==
    {k \in 1..Len(inv) : inv[k].event = "on_match_complete"}

\* The scores before the result that call k of inv is told of: those the
\* handler of the result before it found or, for the first, those before
\* the step.
ScoresBefore(inv, k) ==
    LET earlier == {j \in CompleteCalls(inv) : j < k}
    IN IF earlier = {} THEN tournament_score
       ELSE inv[CHOOSE j \in earlier : \A i \in earlier : i <= j].scores

\* The handler call seen has the result of match m scored and nothing of
\* its advancement done: no slot of the parent written, no round set up.
ScoredNotAdvanced(seen, before, m) ==
    /\ is_complete(seen.objs[m])
    /\ \A p \in DOMAIN tournament_score :
          seen.scores[p] =
              before[p] + Points(seen.objs[m], seen.objs[m].winner, p)
    /\ m \in DOMAIN bracket' =>
          LET parent == bracket'[m] IN
          /\ (IF sources'[parent][1] = m THEN seen.objs[parent].home
              ELSE seen.objs[parent].away) = NoneVal
          /\ (IF sources'[parent][1] = m THEN objs'[parent].home
              ELSE objs'[parent].away) = seen.objs[m].winner
    /\ format = "swiss" =>
          /\ seen.current_round = current_round
          /\ Len(seen.objs) = Len(objs)

\* The firing at position i of the step is one a result causes: the end of
\* the tournament, a next round, or a match made ready by a result.
CausedByResult(i) ==
    \/ fired'[i].event = "on_complete"
    \/ /\ fired'[i].event \in {"on_start_round", "on_match_ready"}
       /\ format = "swiss"
       /\ fired'[1].event # "on_start"
    \/ /\ fired'[i].event = "on_match_ready"
       /\ fired'[i].match \in DOMAIN sources'

\* The firing at position j is on_match_complete for the result that
\* causes the firing at position i.
IsCauseOf(j, i) ==
    /\ fired'[j].event = "on_match_complete"
    /\ IF format = "swiss" THEN j = 1
       ELSE /\ j = i - 1
            /\ IF fired'[i].event = "on_complete"
               THEN fired'[j].match \notin DOMAIN bracket'
               ELSE bracket'[fired'[j].match] = fired'[i].match

\* C14: for each result the scores are updated, then on_match_complete
\* fires, then the tournament advances: a reported result fires
\* on_match_complete first; every on_match_ready, on_start_round or
\* on_complete that a result causes is fired after the on_match_complete
\* of that result; and the handler of on_match_complete finds the result
\* scored and nothing of its advancement done.
C14_ScoreThenCompleteThenAdvance ==
    [][/\ \A m \in Range(matches) : \A winner \in ValidWinners(m) :
            (active(objs[m]) /\ Report(m, winner)) =>
                fired'[1] = [event |-> "on_match_complete", match |-> m]
       /\ objs' # objs =>
            /\ \A i \in 1..Len(fired') :
                  CausedByResult(i) => \E j \in 1..(i - 1) : IsCauseOf(j, i)
            /\ \A i \in 1..Len(fired') :
                  fired'[i].event = "on_match_complete" =>
                      /\ Cardinality({k \in CompleteCalls(invoked') :
                              invoked'[k].match = fired'[i].match}) = 1
                      /\ \A k \in CompleteCalls(invoked') :
                            invoked'[k].match = fired'[i].match =>
                                ScoredNotAdvanced(invoked'[k],
                                                  ScoresBefore(invoked', k),
                                                  fired'[i].match)]_vars

\* A result has made a match of the bracket ready: its handler found the
\* winner's three points, and the match it made ready is announced next.
C14_Witness ==
    /\ format = "single"
    /\ Len(fired) = 2
    /\ fired[1].event = "on_match_complete"
    /\ fired[2].event = "on_match_ready"
    /\ invoked[1].scores[objs[fired[1].match].winner] >= 3
    /\ invoked[1].scores = tournament_score

\* ----------------------------------------------------------- termination

ActiveMatches == {m \in Range(matches) : active(objs[m])}

\* C15: when every active match gets one valid result in the end, a
\* started tournament reaches on_complete; before on_complete a started
\* tournament always has an active match to report, so it waits for
\* nothing else; and once on_complete has fired no match is active.  (The
\* steps the fairness condition speaks of are the reports, and only they.)
C15_Terminates ==
    /\ [][ReportActive <=> <<ResultScored>>_tournament_score]_vars
    /\ [](num_players # 0 /\ completions = 0 => ActiveMatches # {})
    /\ [](completions >= 1 => ActiveMatches = {})
    /\ (num_players # 0 ~> completions >= 1)

\* A tournament of several matches has ended: every match has its result.
C15_Witness ==
    /\ completions = 1
    /\ Len(matches) >= 3
    /\ Incomplete = {}

\* -------------------------------------------------------------- handlers

\* The calls of handlers that the firings, in their order, make with the
\* registry: for each firing the handlers under its name, as registered.
RECURSIVE ExpectedCalls(_, _)
ExpectedCalls(firings, registry) ==
    IF firings = <<>> THEN <<>>
    ELSE [k \in 1..Len(HandlersOf(registry, Head(firings).event)) |->
            [handler |-> HandlersOf(registry, Head(firings).event)[k],
             event |-> Head(firings).event,
             match |-> Head(firings).match]]
         \o ExpectedCalls(Tail(firings), registry)

\* The calls made, without what the handlers found.
CallsMade(inv) ==
    [k \in 1..Len(inv) |-> [handler |-> inv[k].handler,
                            event |-> inv[k].event, match |-> inv[k].match]]

\* C16 as stated: in a call of start() or report_result, for every firing
\* every handler registered under the name of the firing is invoked exactly
\* once.
C16_EachHandlerOnce ==
    [][objs' # objs =>
        \A i \in 1..Len(fired') :
            \A h \in Range(HandlersOf(callbacks, fired'[i].event)) :
                Cardinality({k \in 1..Len(invoked') :
                    /\ invoked'[k].handler = h
                    /\ invoked'[k].event = fired'[i].event
                    /\ invoked'[k].match = fired'[i].match}) = 1]_vars

\* C16: in a call of start() or report_result, every firing invokes the
\* handlers registered under its name once for each registration, in the
\* order of the registrations, and no handler registered under another
\* name; a firing whose name has no handler invokes nothing.
C16_EachRegistrationOnce ==
    [][objs' # objs =>
        CallsMade(invoked') = ExpectedCalls(fired', callbacks)]_vars

\* Two different handlers under one name were called in the order of their
\* registration, by a call that also fired a name without handlers.
C16_Witness ==
    /\ \E e \in DOMAIN callbacks : callbacks[e] = <<"g", "f">>
    /\ Len(invoked) = 2
    /\ invoked[1].handler = "g"
    /\ invoked[2].handler = "f"
    /\ invoked[1].event = invoked[2].event
    /\ Len(fired) >= 2

\* ------------------------------------------------ the slots of a parent

\* Both slots of a match are filled.
Filled(o) == o.home # NoneVal /\ o.away # NoneVal

\* How often the step announced match ph as ready.
ReadyFirings(ph) ==
    Cardinality({i \in 1..Len(fired') :
        fired'[i] = [event |-> "on_match_ready", match |-> ph]})

\* C17: in a bracket, the result of a match that is not the final writes
\* the winner into the slot of the parent that the provenance pair gives
\* (home for the first source, away for the second) and leaves the other
\* slot of the parent, and every other match, as it was; a filled slot
\* never changes; and a call announces a placeholder as ready once if it
\* made the second of its slots filled, and not at all otherwise: once for
\* each placeholder in all.
C17_WinnerIntoProvenanceSlot ==
    [][(format = "single" /\ objs' # objs) =>
        /\ \A m \in Range(matches) : \A winner \in ValidWinners(m) :
              (active(objs[m]) /\ Report(m, winner) /\ m \in DOMAIN bracket) =>
                  LET parent == bracket[m] IN
                  /\ IF sources[parent][1] = m
                     THEN /\ sources[parent][2] # m
                          /\ objs[parent].home = NoneVal
                          /\ objs'[parent].home = winner
                          /\ objs'[parent].away = objs[parent].away
                     ELSE /\ sources[parent][2] = m
                          /\ objs[parent].away = NoneVal
                          /\ objs'[parent].away = winner
                          /\ objs'[parent].home = objs[parent].home
                  /\ objs'[parent].winner = NoneVal
                  /\ \A x \in DOMAIN objs \ {m, parent} : objs'[x] = objs[x]
                  /\ objs'[m].home = objs[m].home
                  /\ objs'[m].away = objs[m].away
        /\ \A x \in DOMAIN objs :
              /\ objs[x].home # NoneVal => objs'[x].home = objs[x].home
              /\ objs[x].away # NoneVal => objs'[x].away = objs[x].away
        /\ \A ph \in DOMAIN sources' :
              ReadyFirings(ph) =
                  IF /\ Filled(objs'[ph])
                     /\ ~(ph \in DOMAIN objs /\ Filled(objs[ph]))
                  THEN 1 ELSE 0]_vars

\* The winner of a second source has filled the away slot of its parent,
\* whose home slot was filled before: the parent is announced.
C17_Witness ==
    /\ format = "single"
    /\ Len(fired) = 2
    /\ fired[1].event = "on_match_complete"
    /\ fired[2].event = "on_match_ready"
    /\ fired[2].match \in DOMAIN sources
    /\ sources[fired[2].match][2] = fired[1].match
    /\ objs[fired[2].match].away = objs[fired[1].match].winner
    /\ objs[fired[2].match].home # objs[fired[1].match].winner

\* ------------------------------------------------------ greedy pairings

\* The participants, in the rank order of the round being set up, that
\* the matches made by the step before its k-th leave unpaired.
Unpaired(k) ==
    LET paired == UNION {{objs'[matches'[j]].home, objs'[matches'[j]].away} :
                            j \in (Len(matches) + 1)..(Len(matches) + k - 1)}
        Free(p) == p \notin paired
    IN SelectSeq(ranking', Free)

\* The k-th match a round set-up makes is the greedy choice: home is the
\* first of the unpaired, away the first of the others that home has no
\* record of or, when home has a record of them all, the first of them.
GreedyChoice(k) ==
    LET o == objs'[matches'[Len(matches) + k]]
        others == Tail(Unpaired(k))
        New(p) == ~Contains(Opp(Self, o.home), p)
        unplayed == SelectSeq(others, New)
    IN /\ o.home = Head(Unpaired(k))
       /\ o.away = IF unplayed # <<>> THEN Head(unplayed) ELSE Head(others)

\* The spec's example: of four participants 1 plays 2 and 3 plays 4 in
\* round 1 and, when 1 and 3 have won, 1 plays 3 and 2 plays 4 in round 2.
ExamplePairings ==
    /\ Len(participants) = 4 /\ Len(matches) >= 2 =>
          /\ <<objs[matches[1]].home, objs[matches[1]].away>> = <<1, 2>>
          /\ <<objs[matches[2]].home, objs[matches[2]].away>> = <<3, 4>>
    /\ ( /\ Len(participants) = 4 /\ Len(matches) >= 4
         /\ objs[matches[1]].winner = 1
         /\ objs[matches[2]].winner = 3 ) =>
          /\ <<objs[matches[3]].home, objs[matches[3]].away>> = <<1, 3>>
          /\ <<objs[matches[4]].home, objs[matches[4]].away>> = <<2, 4>>

\* C18: a Swiss round set-up ranks the participants by their current
\* scores and pairs them greedily in that order: home is the highest
\* ranked participant not yet paired in the round, away the first of the
\* others still unpaired that is not on home's record of opponents, and
\* the highest ranked of them only when all of them are on it; so of four
\* participants round 1 is 1-2 and 3-4, and round 2, when 1 and 3 have
\* won, is 1-3 and 2-4.
C18_GreedyPairing ==
    [][format = "swiss" =>
        /\ current_round' # current_round =>
              /\ ranking' = SortedByScore(participants, tournament_score')
              /\ Len(matches') = Len(matches) + PerRound
              /\ \A k \in 1..PerRound : GreedyChoice(k)
        /\ ExamplePairings']_vars

\* Round 2 of the example is set up: 1 and 3 have won, and 1 plays 3 and
\* 2 plays 4.
C18_Witness ==
    /\ format = "swiss"
    /\ Len(participants) = 4
    /\ current_round = 2
    /\ Len(matches) = 4
    /\ objs[matches[1]].winner = 1
    /\ objs[matches[2]].winner = 3
    /\ <<objs[matches[3]].home, objs[matches[3]].away>> = <<1, 3>>
    /\ <<objs[matches[4]].home, objs[matches[4]].away>> = <<2, 4>>

\* ------------------------------------------------- the rounds, pairwise

\* The positions in the match list of the matches of round r.
RoundPositions(r) == ((r - 1) * PerRound + 1)..(r * PerRound)

\* The opponent of p in the match at position k, which p plays in.
Partner(p, k) ==
    IF objs[matches[k]].home = p THEN objs[matches[k]].away
    ELSE objs[matches[k]].home

\* The opponent history of p: self.opponents.setdefault(p, []).
History(p) == IF p \in DOMAIN opponents THEN opponents[p] ELSE <<>>

\* How often q stands in the opponent history of p.
TimesRecorded(p, q) ==
    Cardinality({i \in 1..Len(History(p)) : History(p)[i] = q})

\* Every round made so far has N/2 matches with every participant in one
\* slot, and the opponent history is that of the matches made.
RoundsPairEveryone ==
    /\ Len(matches) = current_round * PerRound
    /\ \A r \in 1..current_round :
          /\ \A k \in RoundPositions(r) :
                objs[matches[k]].home # objs[matches[k]].away
          /\ \A p \in Range(participants) :
                Cardinality({k \in RoundPositions(r) : p \in SlotsAt(k)}) = 1
          /\ \A k \in RoundPositions(r) : SlotsAt(k) \subseteq Range(participants)
    /\ \A p \in Range(participants) :
          /\ Len(History(p)) = current_round
          /\ \A r \in 1..current_round :
                \E k \in RoundPositions(r) :
                    p \in SlotsAt(k) /\ History(p)[r] = Partner(p, k)
          /\ \A q \in Range(participants) :
                TimesRecorded(p, q) = TimesRecorded(q, p)

\* What the call that sets up a round fires last: on_match_ready for each
\* of the new matches, in their order, and then on_start_round, once.
RoundAnnounced ==
    /\ Len(matches') = Len(matches) + PerRound
    /\ Len(fired') >= PerRound + 1
    /\ \A k \in 1..PerRound :
          fired'[Len(fired') - PerRound - 1 + k] =
              [event |-> "on_match_ready", match |-> matches'[Len(matches) + k]]
    /\ fired'[Len(fired')] = [event |-> "on_start_round", match |-> NoMatch]
    /\ Cardinality({i \in 1..Len(fired') :
            fired'[i].event = "on_match_ready"}) = PerRound
    /\ Cardinality({i \in 1..Len(fired') :
            fired'[i].event = "on_start_round"}) = 1

\* C20: in the Swiss format with an even number N of participants every
\* round set-up makes N/2 matches in which every participant has exactly
\* one slot, fires on_match_ready once for each of them and then
\* on_start_round once; and the opponent history is symmetric and is the
\* pairings of all the matches made so far.
C20_RoundsPairEveryoneOnce ==
    [][format = "swiss" =>
        /\ RoundsPairEveryone'
        /\ current_round' # current_round => RoundAnnounced]_vars

\* A second round of three matches has been set up and announced.
C20_Witness ==
    /\ format = "swiss"
    /\ Len(participants) = 6
    /\ current_round = 2
    /\ Len(matches) = 6
    /\ Len(fired) = 5
    /\ fired[5].event = "on_start_round"
    /\ Len(opponents[1]) = 2

\* ------------------------------------------------- reports from handlers

\* What a handler of the Swiss format must find when it is called: the
\* round it is called in was started after all the pairings of the rounds
\* before it were made, and on_complete comes when all the pairings of
\* all the rounds are made and played.
SwissInOrder(seen) ==
    /\ seen.current_round >= 1 =>
          Len(seen.objs) > (seen.current_round - 1) * PerRound
    /\ seen.event = "on_complete" =>
          /\ Len(seen.objs) = rounds * PerRound
          /\ \A x \in DOMAIN seen.objs : is_complete(seen.objs[x])

\* C19: a handler of on_match_ready may report the result of its match
\* before it returns, and the advancement of that result does not cut
\* into the seeding or the round set-up under way: in the Swiss format no
\* round is started, and on_complete is not fired, before all the N/2
\* pairings of the rounds before are made; in a bracket the result of a
\* match that has a parent is written into the parent, and on_complete is
\* fired for the final alone.
C19_NoInterleaving ==
    /\ format = "swiss" =>
          \A k \in 1..Len(invoked) : SwissInOrder(invoked[k])
    /\ format = "single" =>
          /\ \A m \in Range(matches) :
                (is_complete(objs[m]) /\ m \in DOMAIN bracket) =>
                    ParentSlot(m) = objs[m].winner
          /\ completions = Cardinality({m \in Finals : is_complete(objs[m])})

====
